---- MODULE Spec2Model ----
(***************************************************************************)
(* Word Cloud Generator (src/word.py): a Streamlit script that is re-run   *)
(* from top to bottom on every user interaction.  The model has two        *)
(* specifications.                                                         *)
(*   Spec    the script itself: one action per user interaction, each one  *)
(*           a widget change followed by the whole re-run of the script.   *)
(*   SpecFn  the pure functions filter_stopwords and the group-and-count   *)
(*           expression, applied to every text and stopword set within    *)
(*           the bounds.                                                   *)
(* A text is a sequence of one-character strings.  The file readers, the   *)
(* word-cloud renderer and the UI framework are external: the model keeps  *)
(* what the script gives them and what it does with what they return.      *)
(***************************************************************************)
EXTENDS Integers, Sequences, FiniteSets, TLC

VARIABLES
    uploaded_file,           \* st.file_uploader value (NoFile when empty)
    use_standard_stopwords,  \* sidebar checkbox
    additional_stopwords,    \* sidebar multiselect, as the set the code builds
    width, height,           \* sidebar sliders
    format_, resolution,     \* selectbox and slider of the save options
    run,                     \* what the last run of the script did (see NoRun)
    fn_pc, fn_text, fn_stop, fn_once, fn_twice, fn_table

app_vars == <<uploaded_file, use_standard_stopwords, additional_stopwords,
              width, height, format_, resolution, run>>
fn_vars == <<fn_pc, fn_text, fn_stop, fn_once, fn_twice, fn_table>>
vars == <<app_vars, fn_vars>>

(***************************************************************************)
(* Bounds of the model.                                                    *)
(***************************************************************************)
MaxTextLen == 1     \* characters of an uploaded plain-text file
MaxPages == 2       \* pages of a PDF, paragraphs of a Word document
MaxFnLen == 5       \* characters of a text given to the pure functions

(***************************************************************************)
(* Characters.  str.split() without argument splits on runs of whitespace; *)
(* str.lower() maps "T" to "t"; strings order by code point.               *)
(***************************************************************************)
Whitespace == {" ", "\n"}
Letters == {"a", "t", "T"}
Alphabet == Whitespace \cup Letters

ord(c) ==
    CASE c = "\n" -> 10
      [] c = " " -> 32
      [] c = "T" -> 84
      [] c = "a" -> 97
      [] c = "t" -> 116

lower_char(c) == IF c = "T" THEN "t" ELSE c

lower(word) == [i \in 1..Len(word) |-> lower_char(word[i])]

RECURSIVE str_less(_, _)
str_less(u, v) ==
    IF v = <<>> THEN FALSE
    ELSE IF u = <<>> THEN TRUE
    ELSE IF Head(u) = Head(v) THEN str_less(Tail(u), Tail(v))
    ELSE ord(Head(u)) < ord(Head(v))

RECURSIVE split_from(_, _, _)
split_from(s, i, cur) ==
    IF i > Len(s) THEN (IF cur = <<>> THEN <<>> ELSE <<cur>>)
    ELSE IF s[i] \in Whitespace
         THEN (IF cur = <<>> THEN <<>> ELSE <<cur>>) \o split_from(s, i + 1, <<>>)
         ELSE split_from(s, i + 1, Append(cur, s[i]))

split(s) == split_from(s, 1, <<>>)

RECURSIVE join(_, _)
join(sep, parts) ==
    IF parts = <<>> THEN <<>>
    ELSE IF Len(parts) = 1 THEN parts[1]
    ELSE parts[1] \o sep \o join(sep, Tail(parts))

RECURSIVE TextsUpTo(_, _)
TextsUpTo(chars, n) ==
    IF n = 0 THEN {<<>>}
    ELSE LET shorter == TextsUpTo(chars, n - 1)
         IN shorter \cup {Append(t, c) : t \in shorter, c \in chars}

(***************************************************************************)
(* wordcloud.STOPWORDS: the built-in English list.  Of its words, "a" and  *)
(* "at" are the ones that can be written with the letters of the model.    *)
(***************************************************************************)
STOPWORDS == {<<"a">>, <<"a", "t">>}


(***************************************************************************)
(* filter_stopwords, lines 28-32.                                          *)
(***************************************************************************)
filter_stopwords_lowercased(txt, stopwords) ==
    LET words == split(txt)
        all_stopwords == STOPWORDS \cup stopwords
        kept == SelectSeq(words, LAMBDA word : word \notin all_stopwords)
    IN  join(<<" ">>, [i \in 1..Len(kept) |-> lower(kept[i])])

filter_stopwords(txt, stopwords) ==
    LET words == split(txt)
        all_stopwords == STOPWORDS \cup stopwords
        filtered_words == SelectSeq(words, LAMBDA word : lower(word) \notin all_stopwords)
    IN  join(<<" ">>, filtered_words)

(***************************************************************************)
(* The frequency table, lines 72 and 117:                                  *)
(*   DataFrame({'Word': words}).groupby('Word').size()                     *)
(*     .reset_index(name='Count').sort_values('Count', ascending=False)    *)
(* A table is a sequence of rows [Word, Count].  groupby gives one row per *)
(* distinct word, in ascending order of the word.  sort_values orders the  *)
(* rows by descending count; rows of equal count keep the groupby order    *)
(* here (pandas leaves the order of ties to the sorting routine).          *)
(***************************************************************************)
RECURSIVE count_of(_, _)
count_of(word, words) ==
    IF words = <<>> THEN 0
    ELSE (IF Head(words) = word THEN 1 ELSE 0) + count_of(word, Tail(words))

RECURSIVE sorted_words(_)
sorted_words(S) ==
    IF S = {} THEN <<>>
    ELSE LET least == CHOOSE w \in S : \A v \in S \ {w} : str_less(w, v)
         IN  <<least>> \o sorted_words(S \ {least})

groupby_size(words) ==
    LET keys == sorted_words({words[i] : i \in 1..Len(words)})
    IN  [i \in 1..Len(keys) |-> [Word |-> keys[i], Count |-> count_of(keys[i], words)]]

RECURSIVE insert_by_count(_, _, _)
insert_by_count(row, rows, descending) ==
    IF rows = <<>> THEN <<row>>
    ELSE IF (IF descending THEN Head(rows).Count >= row.Count
                           ELSE Head(rows).Count <= row.Count)
         THEN <<Head(rows)>> \o insert_by_count(row, Tail(rows), descending)
         ELSE <<row>> \o rows

RECURSIVE sort_values(_, _)
sort_values(rows, descending) ==
    IF rows = <<>> THEN <<>>
    ELSE insert_by_count(rows[Len(rows)],
                         sort_values(SubSeq(rows, 1, Len(rows) - 1), descending),
                         descending)

word_count_ascending(txt) == sort_values(groupby_size(split(txt)), FALSE)

word_count(txt) == sort_values(groupby_size(split(txt)), TRUE)

head(seq, n) == SubSeq(seq, 1, IF Len(seq) < n THEN Len(seq) ELSE n)

word_column(table) == [i \in 1..Len(table) |-> table[i].Word]

TopWordsLimit == 50

(***************************************************************************)
(* Line 76 reads word_count, which at that point is the table of the text  *)
(* as extracted; the widget values are not read.                           *)
(***************************************************************************)
top_words_after_filtering(raw, std, add) ==
    head(word_column(word_count(
            filter_stopwords(raw, IF std THEN STOPWORDS \cup add ELSE add))),
         TopWordsLimit)

top_words_of(raw, std, add) == head(word_column(word_count(raw)), TopWordsLimit)

\* sorted(top_words), line 77: the options of the multiselect
sorted(words) == sorted_words({words[i] : i \in 1..Len(words)})

\* lines 79-82
all_stopwords_of(std, add) == IF std THEN STOPWORDS \cup add ELSE add


(***************************************************************************)
(* Uploaded files.  content is what the format's reader can extract: the   *)
(* decoded text of a plain-text file, the page texts of a PDF, the         *)
(* paragraph texts of a Word document.  valid is FALSE for a plain-text    *)
(* file whose bytes are not UTF-8.                                         *)
(***************************************************************************)
TXT == "text/plain"
PDF == "application/pdf"
DOCX == "application/vnd.openxmlformats-officedocument.wordprocessingml.document"
ZIP == "application/zip"

NoFile == [type |-> "none", valid |-> TRUE, content |-> <<>>]

FileChars == {" ", "a", "t", "T"}
PageTexts == {<<>>, <<"a">>, <<"T">>}
ParagraphTexts == {<<>>, <<"t">>}

RECURSIVE PartsUpTo(_, _)
PartsUpTo(parts, n) ==
    IF n = 0 THEN {<<>>}
    ELSE LET shorter == PartsUpTo(parts, n - 1)
         IN shorter \cup {Append(ps, p) : ps \in shorter, p \in parts}

Files ==
    {[type |-> TXT, valid |-> TRUE, content |-> <<t>>] :
        t \in TextsUpTo(FileChars, MaxTextLen)}
    \cup {[type |-> TXT, valid |-> FALSE, content |-> <<>>]}
    \cup {[type |-> PDF, valid |-> TRUE, content |-> ps] :
              ps \in PartsUpTo(PageTexts, MaxPages)}
    \cup {[type |-> DOCX, valid |-> TRUE, content |-> ps] :
              ps \in PartsUpTo(ParagraphTexts, MaxPages)}
    \cup {[type |-> ZIP, valid |-> TRUE, content |-> <<>>]}

(***************************************************************************)
(* The readers, lines 14-25.  bytes.decode("utf-8") raises                 *)
(* UnicodeDecodeError on invalid bytes.                                    *)
(***************************************************************************)
read_txt(file) ==
    IF file.valid THEN [outcome |-> "text", text |-> file.content[1]]
    ELSE [outcome |-> "raised", text |-> <<>>]

read_docx(file) == [outcome |-> "text", text |-> join(<<" ">>, file.content)]

read_pdf(file) == [outcome |-> "text", text |-> join(<<" ">>, file.content)]

(***************************************************************************)
(* The dispatch on the MIME type, lines 60-68.  "unsupported" is the else  *)
(* branch: st.error, then st.stop().                                       *)
(***************************************************************************)
read_file_without_stop(file) ==
    IF file.type = TXT THEN read_txt(file)
    ELSE IF file.type = PDF THEN read_pdf(file)
    ELSE IF file.type = DOCX THEN read_docx(file)
    ELSE [outcome |-> "raised", text |-> <<>>]

read_file(file) ==
    IF file.type = TXT THEN read_txt(file)
    ELSE IF file.type = PDF THEN read_pdf(file)
    ELSE IF file.type = DOCX THEN read_docx(file)
    ELSE [outcome |-> "unsupported", text |-> <<>>]

\* `if text:`, line 88
text_guard_always(txt) == TRUE

text_guard(txt) == txt # <<>>

\* st.button returns True only in the run its press triggered, lines 109, 121
save_button_always(ev) == TRUE

save_button(ev) == ev = "save"

csv_button(ev) == ev = "csv"

(***************************************************************************)
(* One run of the script, lines 54-122, on the uploaded file and the       *)
(* widget values, triggered by the interaction ev.                         *)
(***************************************************************************)
NoRun ==
    [status |-> "no_file", error_shown |-> FALSE, ran |-> {},
     raw_table |-> <<>>, top_words |-> <<>>, text |-> <<>>,
     rendered_text |-> <<>>, final_table |-> <<>>,
     image_link |-> FALSE, csv_link |-> FALSE]

RunScript(file, std, add, ev) ==
    IF file = NoFile THEN NoRun
    ELSE
    LET rd == read_file(file) IN
    IF rd.outcome = "unsupported"
    THEN [NoRun EXCEPT !.status = "unsupported", !.error_shown = TRUE,
                       !.ran = {"details"}]
    ELSE IF rd.outcome = "raised"
    THEN [NoRun EXCEPT !.status = "exception", !.ran = {"details"}]
    ELSE
    LET raw == rd.text
        filtered == filter_stopwords(raw, all_stopwords_of(std, add))
        upto_filter ==
            [NoRun EXCEPT !.status = "done",
                          !.ran = {"details", "read", "raw_count", "controls", "filter"},
                          !.raw_table = word_count(raw),
                          !.top_words = top_words_of(raw, std, add),
                          !.text = filtered]
    IN  IF text_guard(filtered)
        THEN [upto_filter EXCEPT
                 !.ran = @ \cup {"render", "table"}
                           \cup (IF save_button(ev) THEN {"save"} ELSE {})
                           \cup (IF csv_button(ev) THEN {"csv"} ELSE {}),
                 !.rendered_text = filtered,
                 !.image_link = save_button(ev),
                 !.final_table = word_count(filtered),
                 !.csv_link = csv_button(ev)]
        ELSE upto_filter

(***************************************************************************)
(* Widgets.  A widget the run does not reach loses its value and shows its *)
(* default the next time it is drawn; the multiselect is a new widget when *)
(* its options change.                                                     *)
(***************************************************************************)
WidthChoices == {1200, 400}
HeightChoices == {800, 200}
Formats == {"png", "jpeg", "svg", "pdf"}
ResolutionChoices == {300, 100}

Rerun(file, std, add, w, h, f, r, ev) ==
    /\ run' = RunScript(file, std, add, ev)
    /\ uploaded_file' = file
    /\ use_standard_stopwords' = (IF "controls" \in run'.ran THEN std ELSE TRUE)
    /\ additional_stopwords' = (IF "controls" \in run'.ran THEN add ELSE {})
    /\ width' = (IF "render" \in run'.ran THEN w ELSE 1200)
    /\ height' = (IF "render" \in run'.ran THEN h ELSE 800)
    /\ format_' = (IF "render" \in run'.ran THEN f ELSE "png")
    /\ resolution' = (IF "render" \in run'.ran THEN r ELSE 300)
    /\ UNCHANGED fn_vars

\* sorted(top_words), line 77: the options the multiselect offers
options == sorted(run.top_words)

\* the options the script offers for a file: lines 60-77
options_of(file) ==
    LET rd == read_file(file)
    IN  IF rd.outcome = "text" THEN <<TRUE, sorted(top_words_of(rd.text, TRUE, {}))>>
        ELSE <<FALSE, <<>>>>



Upload(file) ==
    /\ fn_pc = "app"
    /\ file # uploaded_file
    /\ Rerun(file, use_standard_stopwords,
             IF "controls" \in run.ran /\ options_of(file) = <<TRUE, options>>
             THEN additional_stopwords ELSE {},
             width, height, format_, resolution, "upload")

RemoveFile ==
    /\ fn_pc = "app"
    /\ uploaded_file # NoFile
    /\ Rerun(NoFile, TRUE, {}, 1200, 800, "png", 300, "remove")

ToggleStandard ==
    /\ "controls" \in run.ran
    /\ Rerun(uploaded_file, ~use_standard_stopwords, additional_stopwords,
             width, height, format_, resolution, "checkbox")

SelectAdditional(word) ==
    /\ "controls" \in run.ran
    /\ word \notin additional_stopwords
    /\ Rerun(uploaded_file, use_standard_stopwords, additional_stopwords \cup {word},
             width, height, format_, resolution, "multiselect")

DeselectAdditional(word) ==
    /\ "controls" \in run.ran
    /\ word \in additional_stopwords
    /\ Rerun(uploaded_file, use_standard_stopwords, additional_stopwords \ {word},
             width, height, format_, resolution, "multiselect")

SetWidth(w) ==
    /\ "render" \in run.ran
    /\ w # width
    /\ Rerun(uploaded_file, use_standard_stopwords, additional_stopwords,
             w, height, format_, resolution, "width")

SetHeight(h) ==
    /\ "render" \in run.ran
    /\ h # height
    /\ Rerun(uploaded_file, use_standard_stopwords, additional_stopwords,
             width, h, format_, resolution, "height")

SetFormat(f) ==
    /\ "render" \in run.ran
    /\ f # format_
    /\ Rerun(uploaded_file, use_standard_stopwords, additional_stopwords,
             width, height, f, resolution, "format")

SetResolution(r) ==
    /\ "render" \in run.ran
    /\ r # resolution
    /\ Rerun(uploaded_file, use_standard_stopwords, additional_stopwords,
             width, height, format_, r, "resolution")

PressSave ==
    /\ "render" \in run.ran
    /\ Rerun(uploaded_file, use_standard_stopwords, additional_stopwords,
             width, height, format_, resolution, "save")

PressCsv ==
    /\ "render" \in run.ran
    /\ Rerun(uploaded_file, use_standard_stopwords, additional_stopwords,
             width, height, format_, resolution, "csv")

FnIdle ==
    /\ fn_pc = "app" /\ fn_text = <<>> /\ fn_stop = {}
    /\ fn_once = <<>> /\ fn_twice = <<>> /\ fn_table = <<>>

Init ==
    /\ uploaded_file = NoFile
    /\ use_standard_stopwords = TRUE
    /\ additional_stopwords = {}
    /\ width = 1200 /\ height = 800 /\ format_ = "png" /\ resolution = 300
    /\ run = NoRun
    /\ FnIdle

Next ==
    \/ \E file \in Files : Upload(file)
    \/ RemoveFile
    \/ ToggleStandard
    \/ \E i \in 1..Len(options) : SelectAdditional(options[i])
    \/ \E word \in additional_stopwords : DeselectAdditional(word)
    \/ \E w \in WidthChoices : SetWidth(w)
    \/ \E h \in HeightChoices : SetHeight(h)
    \/ \E f \in Formats : SetFormat(f)
    \/ \E r \in ResolutionChoices : SetResolution(r)
    \/ PressSave
    \/ PressCsv

Spec == Init /\ [][Next]_vars


(***************************************************************************)
(* The pure functions on their own: every text of at most MaxFnLen         *)
(* characters and every stopword set drawn from StopChoices.               *)
(***************************************************************************)
StopChoices == {<<"t">>, <<"T">>}

AppIdle ==
    /\ uploaded_file = NoFile
    /\ use_standard_stopwords = TRUE
    /\ additional_stopwords = {}
    /\ width = 1200 /\ height = 800 /\ format_ = "png" /\ resolution = 300
    /\ run = NoRun

InitFn ==
    /\ AppIdle
    /\ fn_pc = "input"
    /\ fn_text \in TextsUpTo(Alphabet, MaxFnLen)
    /\ fn_stop \in SUBSET StopChoices
    /\ fn_once = <<>> /\ fn_twice = <<>> /\ fn_table = <<>>

FnFilter ==
    /\ fn_pc = "input"
    /\ fn_once' = filter_stopwords(fn_text, fn_stop)
    /\ fn_pc' = "filtered"
    /\ UNCHANGED <<app_vars, fn_text, fn_stop, fn_twice, fn_table>>

FnRefilter ==
    /\ fn_pc = "filtered"
    /\ fn_twice' = filter_stopwords(fn_once, fn_stop)
    /\ fn_pc' = "refiltered"
    /\ UNCHANGED <<app_vars, fn_text, fn_stop, fn_once, fn_table>>

FnCount ==
    /\ fn_pc = "input"
    /\ fn_table' = word_count(fn_text)
    /\ fn_pc' = "counted"
    /\ UNCHANGED <<app_vars, fn_text, fn_stop, fn_once, fn_twice>>

FnCountFiltered ==
    /\ fn_pc = "filtered"
    /\ fn_table' = word_count(fn_once)
    /\ fn_pc' = "counted_filtered"
    /\ UNCHANGED <<app_vars, fn_text, fn_stop, fn_once, fn_twice>>

NextFn == FnFilter \/ FnRefilter \/ FnCount \/ FnCountFiltered

SpecFn == InitFn /\ [][NextFn]_vars


(***************************************************************************)
(* Vocabulary of the properties.                                           *)
(***************************************************************************)
tokens_of(txt) == split(txt)

token_set(txt) == LET toks == tokens_of(txt) IN {toks[i] : i \in 1..Len(toks)}

\* the text the reader extracted from the uploaded file
raw_text == read_file(uploaded_file).text

table_words(table) == {table[i].Word : i \in 1..Len(table)}

RECURSIVE sum_counts(_)
sum_counts(table) ==
    IF table = <<>> THEN 0 ELSE Head(table).Count + sum_counts(Tail(table))

occurrences(word, txt) ==
    LET toks == tokens_of(txt) IN Cardinality({i \in 1..Len(toks) : toks[i] = word})

LaterStages == {"read", "raw_count", "controls", "filter", "render", "save", "table", "csv"}

(***************************************************************************)
(* C1.  With "use standard stopwords" unticked only the user's additions   *)
(* are filtered: every token of the uploaded text whose lowercased form is *)
(* in the built-in list but not among the additions is still in the        *)
(* filtered text and in the final frequency table.                         *)
(***************************************************************************)
C1_OptOutKeepsDefaultWords ==
    ("filter" \in run.ran /\ ~use_standard_stopwords) =>
        \A w \in token_set(raw_text) :
            (lower(w) \in STOPWORDS /\ lower(w) \notin additional_stopwords) =>
                /\ w \in token_set(run.text)
                /\ w \in table_words(run.final_table)

(***************************************************************************)
(* C2.  filter_stopwords(T, S) is exactly the whitespace-split tokens of T *)
(* whose lowercased form is not in S, in order, joined by single spaces;   *)
(* with S empty it is all the tokens of T.                                 *)
(***************************************************************************)
C2_FilterKeepsExactlyNonMembers ==
    fn_pc = "filtered" =>
        fn_once = join(<<" ">>,
                       SelectSeq(tokens_of(fn_text),
                                 LAMBDA w : lower(w) \notin fn_stop))

(***************************************************************************)
(* C3.  Membership in the stopword set is case-insensitive: once the user  *)
(* has selected an additional stopword, no token equal to it ignoring case *)
(* is left in the filtered text.                                           *)
(***************************************************************************)
C3_AdditionsRemovedIgnoringCase ==
    "filter" \in run.ran =>
        \A s \in additional_stopwords : \A w \in token_set(run.text) :
            lower(w) # lower(s)

(***************************************************************************)
(* C4.  An upload whose MIME type is none of the three supported ones ends *)
(* in the unsupported-format outcome: the error is shown, the run stops    *)
(* without an exception and no later stage executes.                       *)
(***************************************************************************)
C4_UnsupportedTypeStops ==
    (uploaded_file # NoFile /\ uploaded_file.type \notin {TXT, PDF, DOCX}) =>
        /\ run.status = "unsupported"
        /\ run.error_shown
        /\ run.ran \cap LaterStages = {}
        /\ ~run.image_link /\ ~run.csv_link

C4_Witness ==
    /\ uploaded_file.type = ZIP
    /\ run.status = "unsupported"
    /\ run.error_shown

(***************************************************************************)
(* C5.  A plain-text upload whose bytes are not valid UTF-8 ends in a      *)
(* handled outcome: the error is shown to the user, no later stage runs    *)
(* and the run does not end in an uncaught exception.                      *)
(***************************************************************************)
C5_DecodeErrorHandled ==
    (uploaded_file.type = TXT /\ ~uploaded_file.valid) =>
        /\ run.status # "exception"
        /\ run.error_shown
        /\ run.ran \cap LaterStages = {}

(***************************************************************************)
(* C6.  When the filtered text has no token, the renderer, the final table *)
(* and both exports are not invoked and the run ends normally; and the     *)
(* renderer is only ever given a text with at least one token.             *)
(***************************************************************************)
C6_EmptyTextSkipsRendering ==
    /\ ("filter" \in run.ran /\ tokens_of(run.text) = <<>>) =>
          /\ run.ran \cap {"render", "save", "table", "csv"} = {}
          /\ run.status = "done"
          /\ run.final_table = <<>>
          /\ ~run.image_link /\ ~run.csv_link
    /\ "render" \in run.ran =>
          /\ tokens_of(run.rendered_text) # <<>>
          /\ run.rendered_text = run.text

C6_Witness ==
    /\ "filter" \in run.ran
    /\ run.raw_table # <<>>
    /\ tokens_of(run.text) = <<>>
    /\ "render" \notin run.ran

(***************************************************************************)
(* C7.  Filtering an already filtered text with the same stopword set      *)
(* gives the same text.                                                    *)
(***************************************************************************)
C7_FilterIdempotent == fn_pc = "refiltered" => fn_twice = fn_once

C7_Witness ==
    /\ fn_pc = "refiltered"
    /\ fn_once # <<>>
    /\ fn_once # fn_text
    /\ Len(tokens_of(fn_once)) < Len(tokens_of(fn_text))

(***************************************************************************)
(* C8.  A frequency table, of the raw text or of the filtered one, has one *)
(* row per distinct token (compared case-sensitively), each count is the   *)
(* number of occurrences and at least 1, the counts sum to the number of   *)
(* tokens, and the rows are in descending order of count.                  *)
(***************************************************************************)
counted_text == IF fn_pc = "counted" THEN fn_text ELSE fn_once

C8_TableWellFormed ==
    fn_pc \in {"counted", "counted_filtered"} =>
        /\ table_words(fn_table) = token_set(counted_text)
        /\ Len(fn_table) = Cardinality(token_set(counted_text))
        /\ \A i \in 1..Len(fn_table) :
              /\ fn_table[i].Count >= 1
              /\ fn_table[i].Count = occurrences(fn_table[i].Word, counted_text)
        /\ sum_counts(fn_table) = Len(tokens_of(counted_text))
        /\ \A i \in 1..(Len(fn_table) - 1) : fn_table[i].Count >= fn_table[i + 1].Count

C8_Witness ==
    /\ fn_pc = "counted_filtered"
    /\ Len(fn_table) = 2
    /\ fn_table[1].Count > fn_table[2].Count
    /\ lower(fn_table[1].Word) = lower(fn_table[2].Word)
    /\ str_less(fn_table[2].Word, fn_table[1].Word)

(***************************************************************************)
(* C9.  A download link is emitted only by the run that the press of its   *)
(* button triggered: the image link only by "Save as", the CSV link only   *)
(* by "Download Word Count Table as CSV".                                  *)
(***************************************************************************)
C9_LinksOnlyOnButtonPress ==
    [][/\ run'.image_link => PressSave
       /\ run'.csv_link => PressCsv]_vars

C9_Witness ==
    /\ run.image_link
    /\ "save" \in run.ran
    /\ ~run.csv_link

(***************************************************************************)
(* C10.  On every re-run on the same file, whatever control was changed,   *)
(* the stopword candidates are unchanged and are the (at most 50)          *)
(* highest-count words of the unfiltered text.                             *)
(***************************************************************************)
CandidatesAreTopRawWords ==
    "controls" \in run.ran =>
        LET raw == raw_text
            words == token_set(raw)
            top == run.top_words
            chosen == {top[i] : i \in 1..Len(top)}
        IN  /\ Len(top) <= TopWordsLimit
            /\ Len(top) = Cardinality(chosen)
            /\ chosen \subseteq words
            /\ \/ chosen = words
               \/ /\ Len(top) = TopWordsLimit
                  /\ \A w \in words \ chosen : \A c \in chosen :
                        occurrences(c, raw) >= occurrences(w, raw)

C10_CandidatesDependOnFileOnly ==
    [][uploaded_file' = uploaded_file =>
          /\ run'.top_words = run.top_words
          /\ CandidatesAreTopRawWords']_vars

C10_Witness ==
    /\ "controls" \in run.ran
    /\ ~use_standard_stopwords
    /\ additional_stopwords # {}
    /\ Len(run.top_words) >= 2
    /\ run.text # raw_text

====
